---- MODULE Spec2Model ----
(***************************************************************************)
(* kokorofile: a command-line tool (kokorofile.py, with an in-process HTTP *)
(* mode) and an HTTP service (server.py) around a text-to-speech engine.   *)
(* A process runs one of the two programs; `prog` says which.              *)
(* The engine, the network, the audio device and the file system are the   *)
(* environment: every call into them either returns or raises, chosen      *)
(* nondeterministically.                                                   *)
(***************************************************************************)
EXTENDS Integers, Sequences, FiniteSets, TLC

\* Longest text (argument, stdin, file content, JSON "text") that is enumerated.
MaxTextLen == 2
\* Most text_to_speech calls in one kokorofile.py process.
MaxCalls == 2
VARIABLES
    prog,       \* "server.py" or "kokorofile.py": the program this process runs
    \* ---- server.py
    settings,   \* global `settings` (a Settings object)
    pipeline,   \* global `pipeline` (a KPipeline: its model and lang_code)
    voiceDir,   \* the directory VOICE_DIR on disk
    pending,    \* handlers suspended at `await request.json()`
    lastOk,     \* history: the Settings of the last POST /settings that returned 200
    req,        \* history: the JSON "text" member of the last synthesis request
    call,       \* history: the pipeline(...) invocation of the last synthesis request
    \* ---- both programs
    resp,       \* the last HTTP response sent
    loads,      \* number of models loaded by this process (KModel(...) / Kokoro(...))
    calls,      \* number of text_to_speech calls made by this process
    \* ---- kokorofile.py
    pc,         \* "start", "serving" (inside uvicorn.run) or "done"
    args,       \* the argparse namespace
    rawInput,   \* history: where main() took its text from, and the raw text
    exitCode,   \* process exit status, -1 while running
    stderr,     \* lines written to stderr (by print, logging and the interpreter)
    stdout,     \* lines written to stdout
    disk,       \* files present in the cache directory
    fetches     \* urlretrieve calls made so far, per cache file

vars == <<prog, settings, pipeline, voiceDir, pending, lastOk, req, call, resp, loads,
          calls, pc, args, rawInput, exitCode, stderr, stdout, disk, fetches>>

serverVars == <<settings, pipeline, voiceDir, pending, lastOk, req, call>>
cliVars == <<pc, args, rawInput, exitCode, stderr, stdout, disk, fetches>>

----------------------------------------------------------------------------
(* Text: Python str as a sequence of characters.                           *)

Chars == {" ", "a"}
Whitespace == {" "}
Texts == UNION {[1..n -> Chars] : n \in 0..MaxTextLen}

RECURSIVE lstrip(_)
lstrip(s) == IF s # <<>> /\ Head(s) \in Whitespace THEN lstrip(Tail(s)) ELSE s

RECURSIVE rstrip(_)
rstrip(s) ==
    IF s # <<>> /\ s[Len(s)] \in Whitespace THEN rstrip(SubSeq(s, 1, Len(s) - 1)) ELSE s

\* Mutant of strip: the text is used as it came
NoStrip(s) == s

\* str.strip()
strip(s) == rstrip(lstrip(s))

\* Python truthiness of a str
Truthy(s) == s # <<>>

----------------------------------------------------------------------------
(* HTTP responses.  `detail` says what the body's detail is made of:       *)
(*   "exception"  the text of the exception raised in the handler          *)
(*   "validation" FastAPI's list of request-validation errors              *)
(*   "generic"    the framework's "Internal Server Error" body             *)
(*   ""           no detail (a success)                                    *)

Response(ep, status, detail) ==
    [ep |-> ep, status |-> status, detail |-> detail,
     lang_code |-> "", voice |-> "", bodyLen |-> 0]

NoResponse == Response("", 0, "")

\* raise HTTPException(status_code=..., detail=...)
HTTPException(ep, status) == Response(ep, status, "exception")
\* FastAPI's answer to a body that fails the endpoint's pydantic model
ValidationError(ep) == Response(ep, 422, "validation")
\* Mutant of Uncaught: the exception's text reaches the client
UncaughtWithDetail(ep) == Response(ep, 500, "exception")

\* an exception that leaves the handler uncaught
Uncaught(ep) == Response(ep, 500, "generic")

----------------------------------------------------------------------------
(* server.py                                                               *)

Settings(lang_code, voice) == [lang_code |-> lang_code, voice |-> voice]
DefaultSettings == Settings("a", "af_sky")

\* The one KModel of the process
core_model == 1

create_pipeline(lang_code) == [model |-> core_model, lang_code |-> lang_code]

File(stem, ext) == [stem |-> stem, ext |-> ext]
\* Path.name
PathName(p) == p.stem \o "." \o p.ext
VoiceFiles == {File("af_sky", "pt"), File("af_sky", "txt")}
VoiceDirs == [exists : {FALSE}, files : {{}}] \cup [exists : {TRUE}, files : SUBSET VoiceFiles]

get_available_voices(dir) ==
    IF ~dir.exists THEN {} ELSE {PathName(p) : p \in {f \in dir.files : f.ext = "pt"}}

LangCodes == {"a", "b"}
VoiceNames == {"af_sky.pt", "zz"}

\* A JSON member: absent, a string, or a value of another type
Missing == [type |-> "missing", val |-> <<>>]
Other == [type |-> "other", val |-> <<>>]
Str(v) == [type |-> "str", val |-> v]
JsonTexts == {Missing, Other} \cup {Str(t) : t \in Texts}
MissingName == [type |-> "missing", val |-> ""]
JsonVoices == {MissingName} \cup {[type |-> "str", val |-> v] : v \in VoiceNames}
JsonLangs == {MissingName} \cup {[type |-> "str", val |-> l] : l \in LangCodes}

\* Bodies of POST /settings: `valid` is whether the body passes the Settings model
InvalidSettings == [valid |-> FALSE, lang_code |-> MissingName, voice |-> MissingName]
SettingsBodies ==
    {InvalidSettings} \cup [valid : {TRUE}, lang_code : JsonLangs, voice : JsonVoices]

\* pydantic fills the members the body leaves out with the class defaults
ParseSettings(body) ==
    Settings(IF body.lang_code.type = "missing" THEN DefaultSettings.lang_code
             ELSE body.lang_code.val,
             IF body.voice.type = "missing" THEN DefaultSettings.voice
             ELSE body.voice.val)

NoCall == [invoked |-> FALSE, voice |-> "", pipeline |-> "", settings |-> ""]
\* `req` before any synthesis request, and for a body that is not JSON
NoReq == [type |-> "none", val |-> <<>>]
NotJsonReq == [type |-> "notjson", val |-> <<>>]

get_settings ==
    /\ prog = "server.py"
    /\ resp' = [Response("GET /settings", 200, "") EXCEPT
                   !.lang_code = settings.lang_code, !.voice = settings.voice]
    /\ req' = NoReq
    /\ call' = NoCall
    /\ UNCHANGED <<prog, settings, pipeline, voiceDir, pending, lastOk, loads, calls,
                   cliVars>>

\* Mutant of update_settings: the new settings are stored before the voice is checked
UpdateSettingsStoreFirst(body, createOk) ==
    LET new == ParseSettings(body)
        voices == get_available_voices(voiceDir)
        ok == body.valid /\ new.voice \in voices /\ createOk
    IN  /\ prog = "server.py"
        /\ settings' = IF body.valid THEN new ELSE settings
        /\ pipeline' = IF ok THEN create_pipeline(new.lang_code) ELSE pipeline
        /\ lastOk' = IF ok THEN new ELSE lastOk
        /\ resp' = IF ~body.valid THEN ValidationError("POST /settings")
                   ELSE IF new.voice \notin voices THEN HTTPException("POST /settings", 400)
                   ELSE IF ~createOk THEN Uncaught("POST /settings")
                   ELSE [Response("POST /settings", 200, "") EXCEPT
                            !.lang_code = new.lang_code, !.voice = new.voice]
        /\ req' = NoReq
        /\ call' = NoCall
        /\ UNCHANGED <<prog, voiceDir, pending, loads, calls, cliVars>>

\* The handler of POST /settings; createOk: whether KPipeline(...) returns
update_settings(body, createOk) ==
    LET new == ParseSettings(body)
        voices == get_available_voices(voiceDir)
    IN  /\ prog = "server.py"
        /\ IF ~body.valid THEN
               /\ resp' = ValidationError("POST /settings")
               /\ UNCHANGED <<settings, pipeline, lastOk>>
           ELSE IF new.voice \notin voices THEN
               /\ resp' = HTTPException("POST /settings", 400)
               /\ UNCHANGED <<settings, pipeline, lastOk>>
           ELSE
               /\ settings' = new
               /\ IF createOk THEN
                      /\ pipeline' = create_pipeline(new.lang_code)
                      /\ resp' = [Response("POST /settings", 200, "") EXCEPT
                                     !.lang_code = new.lang_code, !.voice = new.voice]
                      /\ lastOk' = new
                  ELSE
                      /\ resp' = Uncaught("POST /settings")
                      /\ UNCHANGED <<pipeline, lastOk>>
        /\ req' = NoReq
        /\ call' = NoCall
        /\ UNCHANGED <<prog, voiceDir, pending, loads, calls, cliVars>>

\* What pipeline(text, voice=voice) does: raises, or yields frames (their byte lengths)
Frames == {<<>>, <<0, 4>>}
EngineResults == [raised : {TRUE}, frames : {<<>>}] \cup [raised : {FALSE}, frames : Frames]

RECURSIVE Sum(_)
Sum(s) == IF s = <<>> THEN 0 ELSE Head(s) + Sum(Tail(s))

\* wave writes a 44-byte RIFF header before the frames
WavHeaderLen == 44
WavLen(frames) == WavHeaderLen + Sum(frames)

NotJson == [json |-> FALSE, text |-> Missing, voice |-> MissingName]
SynthBodies == {NotJson} \cup [json : {TRUE}, text : JsonTexts, voice : JsonVoices]

Endpoints == {"POST /synthesize_file", "POST /play_live"}

\* A request reaches its handler, which suspends at `await request.json()`
receive(ep) ==
    /\ prog = "server.py"
    /\ ep \notin pending
    /\ pending' = pending \cup {ep}
    /\ UNCHANGED <<prog, settings, pipeline, voiceDir, lastOk, req, call, resp, loads,
                   calls, cliVars>>

\* data.get("text", "")
GetText(body) == IF body.text.type = "missing" THEN Str(<<>>) ELSE body.text
\* data.get("voice", settings.voice)
GetVoice(body) == IF body.voice.type = "missing" THEN settings.voice ELSE body.voice.val

Invocation(voice) ==
    [invoked |-> TRUE, voice |-> voice, pipeline |-> pipeline.lang_code,
     settings |-> settings.lang_code]

\* The rest of a synthesis handler, from the resumption after request.json() to
\* the response; there is no await in it.  `wav` tells /synthesize_file from /play_live.
Handle(ep, body, eng, wav) ==
    /\ prog = "server.py"
    /\ ep \in pending
    /\ pending' = pending \ {ep}
    /\ req' = IF body.json THEN body.text ELSE NotJsonReq
    /\ IF ~body.json \/ GetText(body).type # "str" THEN
           /\ resp' = Uncaught(ep)
           /\ call' = NoCall
       ELSE IF ~Truthy(strip(GetText(body).val)) THEN
           /\ resp' = HTTPException(ep, 400)
           /\ call' = NoCall
       ELSE
           /\ call' = Invocation(GetVoice(body))
           /\ resp' = IF eng.raised THEN Uncaught(ep)
                      ELSE IF wav /\ eng.frames = <<>> THEN HTTPException(ep, 500)
                      ELSE IF wav THEN [Response(ep, 200, "") EXCEPT
                                           !.bodyLen = WavLen(eng.frames)]
                      ELSE Response(ep, 200, "")
    /\ UNCHANGED <<prog, settings, pipeline, voiceDir, lastOk, loads, calls, cliVars>>

synthesize_file(body, eng) == Handle("POST /synthesize_file", body, eng, TRUE)

play_live(body, eng) == Handle("POST /play_live", body, eng, FALSE)

----------------------------------------------------------------------------
(* kokorofile.py                                                           *)

None == <<>>
Some(x) == <<x>>

ModelFile == "kokoro-v1.0.onnx"
VoicesFile == "voices-v1.0.bin"
CacheFiles == {ModelFile, VoicesFile}

\* Mutant of download_file: the file is fetched whether or not it is there
DownloadAlways(path, fs, net) ==
    [disk |-> IF net = "unreachable" THEN fs.disk ELSE fs.disk \cup {path},
     fetches |-> [fs.fetches EXCEPT ![path] = @ + 1],
     raised |-> net # "ok"]

\* download_file(url, path) on the file system fs = [disk, fetches].  net is what
\* urlretrieve does: "ok" writes the file; "partial" leaves a truncated file and
\* raises; "unreachable" raises before the file is created
download_file(path, fs, net) ==
    IF path \in fs.disk THEN
        [disk |-> fs.disk, fetches |-> fs.fetches, raised |-> FALSE]
    ELSE
        [disk |-> IF net = "unreachable" THEN fs.disk ELSE fs.disk \cup {path},
         fetches |-> [fs.fetches EXCEPT ![path] = @ + 1],
         raised |-> net # "ok"]

\* The tuple is built left to right: the voices file is not tried once the model raised
download_model_files(fs, netModel, netVoices) ==
    LET m == download_file(ModelFile, fs, netModel)
    IN  IF m.raised THEN m ELSE download_file(VoicesFile, m, netVoices)

\* The place where a text_to_speech call raises, if the call gets there
FailPoints == {"none", "makedirs", "model:partial", "model:unreachable",
               "voices:partial", "voices:unreachable", "Kokoro", "create", "output"}

NetOf(fail, file) ==
    IF fail = file \o ":partial" THEN "partial"
    ELSE IF fail = file \o ":unreachable" THEN "unreachable"
    ELSE "ok"

\* Mutant of text_to_speech: the model loaded by the first call is kept and reused
TextToSpeechCached(d, f, n, output_file, fail) ==
    IF fail = "makedirs" THEN
        [disk |-> d, fetches |-> f, loads |-> n, raised |-> TRUE, out |-> {}]
    ELSE
        LET dl == download_model_files([disk |-> d, fetches |-> f],
                                       NetOf(fail, "model"), NetOf(fail, "voices"))
        IN  IF dl.raised THEN
                [disk |-> dl.disk, fetches |-> dl.fetches, loads |-> n, raised |-> TRUE,
                 out |-> {}]
            ELSE
                [disk |-> dl.disk, fetches |-> dl.fetches,
                 loads |-> IF n > 0 \/ fail = "Kokoro" THEN n ELSE n + 1,
                 raised |-> fail \in {"Kokoro", "create", "output"},
                 out |-> IF output_file /\ fail \notin {"Kokoro", "create", "output"}
                         THEN {"Audio saved to"} ELSE {}]

\* text_to_speech(...): the cache, the models loaded, whether it raised and what it
\* printed; output_file: whether a file to write was given
text_to_speech(d, f, n, output_file, fail) ==
    IF fail = "makedirs" THEN
        [disk |-> d, fetches |-> f, loads |-> n, raised |-> TRUE, out |-> {}]
    ELSE
        LET dl == download_model_files([disk |-> d, fetches |-> f],
                                       NetOf(fail, "model"), NetOf(fail, "voices"))
        IN  IF dl.raised THEN
                [disk |-> dl.disk, fetches |-> dl.fetches, loads |-> n, raised |-> TRUE,
                 out |-> {}]
            ELSE
                [disk |-> dl.disk, fetches |-> dl.fetches,
                 loads |-> IF fail = "Kokoro" THEN n ELSE n + 1,
                 raised |-> fail \in {"Kokoro", "create", "output"},
                 out |-> IF output_file /\ fail \notin {"Kokoro", "create", "output"}
                         THEN {"Audio saved to"} ELSE {}]

\* The argparse namespace: input is None or Some(text); output and device say whether
\* -o and -d were given
Namespace(server, list_devices, input, output, device) ==
    [server |-> server, list_devices |-> list_devices, input |-> input,
     output |-> output, device |-> device]
NoArgs == Namespace(FALSE, FALSE, None, FALSE, FALSE)
Inputs == {None} \cup {Some(t) : t \in Texts}
SpeakArgs == [server : {FALSE}, list_devices : {FALSE}, input : Inputs,
              output : BOOLEAN, device : BOOLEAN]
ListArgs == [server : {FALSE}, list_devices : {TRUE}, input : Inputs,
             output : BOOLEAN, device : BOOLEAN]
ServerArgs == [server : {TRUE}, list_devices : BOOLEAN, input : {None, Some(<<"a">>)},
               output : {FALSE}, device : {FALSE}]

\* The one path of the working directory that may name a file
InputFileName == <<"a">>
\* The file at that path: absent, or its content
InputFiles == {None} \cup {Some(t) : t \in Texts}

NoInput == [src |-> "none", raw |-> <<>>]

\* Mutant of GetInput: what is read from stdin is not stripped
GetInputRawStdin(a, stdin, file) ==
    IF a.input # None /\ Truthy(a.input[1]) THEN
        IF a.input[1] = InputFileName /\ file # None THEN
            [src |-> "file", raw |-> file[1], text |-> strip(file[1])]
        ELSE
            [src |-> "arg", raw |-> a.input[1], text |-> a.input[1]]
    ELSE
        [src |-> "stdin", raw |-> stdin, text |-> stdin]

\* main(), lines 180-188: where the text comes from and what it is
GetInput(a, stdin, file) ==
    IF a.input # None /\ Truthy(a.input[1]) THEN
        IF a.input[1] = InputFileName /\ file # None THEN
            [src |-> "file", raw |-> file[1], text |-> strip(file[1])]
        ELSE
            [src |-> "arg", raw |-> a.input[1], text |-> a.input[1]]
    ELSE
        [src |-> "stdin", raw |-> stdin, text |-> strip(stdin)]

Exit(code, err, out) ==
    /\ pc' = "done"
    /\ exitCode' = code
    /\ stderr' = stderr \cup err
    /\ stdout' = stdout \cup out

\* parse_args() rejects the command line
main_usage ==
    /\ prog = "kokorofile.py"
    /\ pc = "start"
    /\ Exit(2, {"usage"}, {})
    /\ UNCHANGED <<prog, serverVars, resp, loads, calls, args, rawInput, disk, fetches>>

\* --server: main() enters run_server()
main_server(a) ==
    /\ prog = "kokorofile.py"
    /\ pc = "start"
    /\ a.server
    /\ args' = a
    /\ pc' = "serving"
    /\ UNCHANGED <<prog, serverVars, resp, loads, calls, rawInput, exitCode, stderr,
                   stdout, disk, fetches>>

\* Mutant of main_list_devices: the model is set up before the devices are listed
MainListDevicesAfterSetup(a, devOk) ==
    LET r == text_to_speech(disk, fetches, loads, a.output, "create")
    IN  /\ prog = "kokorofile.py"
        /\ pc = "start"
        /\ ~a.server /\ a.list_devices
        /\ args' = a
        /\ loads' = r.loads
        /\ disk' = r.disk
        /\ fetches' = r.fetches
        /\ IF devOk THEN Exit(0, {}, {"Available audio devices:"})
           ELSE Exit(1, {"Traceback"}, {"Available audio devices:"})
        /\ UNCHANGED <<prog, serverVars, resp, calls, rawInput>>

\* -l without --server; devOk: whether sd.query_devices() returns
main_list_devices(a, devOk) ==
    /\ prog = "kokorofile.py"
    /\ pc = "start"
    /\ ~a.server /\ a.list_devices
    /\ args' = a
    /\ IF devOk THEN Exit(0, {}, {"Available audio devices:"})
       ELSE Exit(1, {"Traceback"}, {"Available audio devices:"})
    /\ UNCHANGED <<prog, serverVars, resp, loads, calls, rawInput, disk, fetches>>

\* Neither --server nor -l; readOk: whether reading the file or stdin returns
main_speak(a, stdin, file, readOk, fail) ==
    LET in == GetInput(a, stdin, file)
        r == text_to_speech(disk, fetches, loads, a.output, fail)
    IN  /\ prog = "kokorofile.py"
        /\ pc = "start"
        /\ ~a.server /\ ~a.list_devices
        /\ args' = a
        /\ IF in.src # "arg" /\ ~readOk THEN
               /\ rawInput' = [src |-> "unreadable", raw |-> <<>>]
               /\ Exit(1, {"Traceback"}, {})
               /\ UNCHANGED <<loads, calls, disk, fetches>>
           ELSE IF ~Truthy(in.text) THEN
               /\ rawInput' = [src |-> in.src, raw |-> in.raw]
               /\ Exit(1, {"Error: No input text provided"}, {})
               /\ UNCHANGED <<loads, calls, disk, fetches>>
           ELSE
               /\ rawInput' = [src |-> in.src, raw |-> in.raw]
               /\ calls' = calls + 1
               /\ loads' = r.loads
               /\ disk' = r.disk
               /\ fetches' = r.fetches
               /\ IF r.raised THEN Exit(1, {"Error: exception"}, {})
                  ELSE Exit(0, {}, r.out)
        /\ UNCHANGED <<prog, serverVars, resp>>

\* POST /synthesize; tmpOk: whether the temporary file could be made
TTSRequests == [valid : BOOLEAN]
synthesize(body, tmpOk, fail) ==
    LET ep == "POST /synthesize"
        r == text_to_speech(disk, fetches, loads, TRUE, fail)
    IN  /\ prog = "kokorofile.py"
        /\ pc = "serving"
        /\ IF ~body.valid THEN
               /\ resp' = ValidationError(ep)
               /\ UNCHANGED <<loads, calls, disk, fetches, stdout>>
           ELSE IF ~tmpOk THEN
               /\ resp' = HTTPException(ep, 500)
               /\ UNCHANGED <<loads, calls, disk, fetches, stdout>>
           ELSE
               /\ calls < MaxCalls
               /\ calls' = calls + 1
               /\ loads' = r.loads
               /\ disk' = r.disk
               /\ fetches' = r.fetches
               /\ stdout' = stdout \cup r.out
               /\ resp' = IF r.raised THEN HTTPException(ep, 500)
                          ELSE Response(ep, 200, "")
        /\ UNCHANGED <<prog, serverVars, pc, args, rawInput, exitCode, stderr>>

list_voices ==
    /\ prog = "kokorofile.py"
    /\ pc = "serving"
    /\ resp' = Response("GET /voices", 200, "")
    /\ UNCHANGED <<prog, serverVars, loads, calls, cliVars>>

list_devices(devOk) ==
    /\ prog = "kokorofile.py"
    /\ pc = "serving"
    /\ resp' = IF devOk THEN Response("GET /devices", 200, "") ELSE Uncaught("GET /devices")
    /\ UNCHANGED <<prog, serverVars, loads, calls, cliVars>>

\* uvicorn.run returns; run_server and main return
shutdown ==
    /\ prog = "kokorofile.py"
    /\ pc = "serving"
    /\ Exit(0, {}, {})
    /\ UNCHANGED <<prog, serverVars, resp, loads, calls, args, rawInput, disk, fetches>>

----------------------------------------------------------------------------
\* server.py after its module body has run: the model is loaded, the settings are
\* the defaults and the pipeline is made for them
InitServer ==
    /\ prog = "server.py"
    /\ voiceDir \in VoiceDirs
    /\ loads = 1
    /\ disk = {}

\* kokorofile.py at the start of main(); the cache holds what earlier runs left
InitCli ==
    /\ prog = "kokorofile.py"
    /\ voiceDir = [exists |-> FALSE, files |-> {}]
    /\ loads = 0
    /\ disk \in SUBSET CacheFiles

Init ==
    /\ InitServer \/ InitCli
    /\ settings = DefaultSettings
    /\ pipeline = create_pipeline(settings.lang_code)
    /\ pending = {}
    /\ lastOk = DefaultSettings
    /\ req = NoReq
    /\ call = NoCall
    /\ resp = NoResponse
    /\ calls = 0
    /\ pc = "start"
    /\ args = NoArgs
    /\ rawInput = NoInput
    /\ exitCode = -1
    /\ stderr = {}
    /\ stdout = {}
    /\ fetches = [p \in CacheFiles |-> 0]

\* The guards stand before the quantifiers so that the inputs are enumerated only
\* where the action is enabled.
Next ==
    \/ get_settings
    \/ /\ prog = "server.py"
       /\ \E body \in SettingsBodies, createOk \in BOOLEAN : update_settings(body, createOk)
    \/ \E ep \in Endpoints : receive(ep)
    \/ /\ "POST /synthesize_file" \in pending
       /\ \E body \in SynthBodies, eng \in EngineResults : synthesize_file(body, eng)
    \/ /\ "POST /play_live" \in pending
       /\ \E body \in SynthBodies, eng \in EngineResults : play_live(body, eng)
    \/ main_usage
    \/ /\ prog = "kokorofile.py" /\ pc = "start"
       /\ \E a \in ServerArgs : main_server(a)
    \/ /\ prog = "kokorofile.py" /\ pc = "start"
       /\ \E a \in ListArgs, devOk \in BOOLEAN : main_list_devices(a, devOk)
    \/ /\ prog = "kokorofile.py" /\ pc = "start"
       /\ \E a \in SpeakArgs, stdin \in Texts, file \in InputFiles, readOk \in BOOLEAN,
             fail \in FailPoints : main_speak(a, stdin, file, readOk, fail)
    \/ /\ prog = "kokorofile.py" /\ pc = "serving"
       /\ \E body \in TTSRequests, tmpOk \in BOOLEAN, fail \in FailPoints :
             synthesize(body, tmpOk, fail)
    \/ list_voices
    \/ \E devOk \in BOOLEAN : list_devices(devOk)
    \/ shutdown

----------------------------------------------------------------------------
(* Properties                                                              *)

AllWhitespace(t) == \A i \in 1..Len(t) : t[i] \in Whitespace

\* C1: a POST /settings whose voice is not among get_available_voices() is answered
\* with 400 and changes neither the global settings nor the global pipeline.
C1_RejectedUpdateKeepsSettings ==
    [][resp'.ep = "POST /settings" =>
          \A body \in SettingsBodies, createOk \in BOOLEAN :
              (/\ body.valid
               /\ ParseSettings(body).voice \notin get_available_voices(voiceDir)
               /\ update_settings(body, createOk))
              => (/\ resp'.status = 400
                  /\ settings' = settings
                  /\ pipeline' = pipeline)]_vars

\* A rejected update arrived after an accepted one had changed the settings.
C1_Witness ==
    /\ resp = HTTPException("POST /settings", 400)
    /\ settings # DefaultSettings
    /\ settings = lastOk

\* C2: GET /settings returns the lang_code and voice of the last POST /settings that
\* returned successfully, or the defaults when none has.
C2_GetReturnsLastSuccessfulUpdate ==
    resp.ep = "GET /settings" =>
        (resp.lang_code = lastOk.lang_code /\ resp.voice = lastOk.voice)

\* C3: the voice handed to the pipeline by /synthesize_file or /play_live is a member
\* of get_available_voices().
C3_SynthesisVoiceIsAvailable ==
    call.invoked => call.voice \in get_available_voices(voiceDir)

\* C4: download_file fetches a cache file only when it is not on disk: once the file
\* is there it stays there and no later call fetches it again; a call fetches a file
\* at most once.
C4_NoFetchOfCachedFile ==
    [][\A p \in CacheFiles :
          /\ p \in disk => (p \in disk' /\ fetches'[p] = fetches[p])
          /\ fetches'[p] \in {fetches[p], fetches[p] + 1}]_vars

\* Two calls got as far as loading the model; the first fetched both files, the
\* second found them.
C4_Witness ==
    /\ calls = 2
    /\ loads = 2
    /\ \A p \in CacheFiles : p \in disk /\ fetches[p] = 1

BlankText(r) == r.type = "missing" \/ (r.type = "str" /\ AllWhitespace(r.val))
NonBlankText(r) == r.type = "str" /\ ~AllWhitespace(r.val)

\* C5 as stated: /synthesize_file answers a missing, empty or whitespace-only text
\* with 400 without invoking the pipeline, and any other text with 200 and a
\* non-empty WAV body.
C5_Original ==
    resp.ep = "POST /synthesize_file" =>
        /\ BlankText(req) => (resp.status = 400 /\ ~call.invoked)
        /\ NonBlankText(req) => (resp.status = 200 /\ resp.bodyLen > 0)

\* C5 as amended: a blank text gets 400 and no pipeline call; a non-blank text always
\* reaches the pipeline and gets 200 with a WAV body (header and frames), or 500
\* when the pipeline yields no frame or raises.
C5_BlankIs400ElseSynthesised ==
    resp.ep = "POST /synthesize_file" =>
        /\ BlankText(req) => (resp.status = 400 /\ ~call.invoked)
        /\ NonBlankText(req) =>
              /\ call.invoked
              /\ resp.status \in {200, 500}
              /\ resp.status = 200 => resp.bodyLen >= WavHeaderLen
        /\ resp.status = 200 => NonBlankText(req)

\* A whitespace-only text was refused.
C5_Witness ==
    /\ resp = HTTPException("POST /synthesize_file", 400)
    /\ req.type = "str"
    /\ req.val # <<>>

NoInputMsg == "Error: No input text provided"
RaisedMsg == "Error: exception"

\* main() read a file or stdin and found nothing but whitespace
BlankRead == rawInput.src \in {"file", "stdin"} /\ AllWhitespace(rawInput.raw)

\* C6 as stated: the CLI exits with 1 and a message when no text is obtained (and
\* then never calls text_to_speech) or when text_to_speech raises, and with 0 in
\* every other run.
C6_Original ==
    pc = "done" =>
        /\ BlankRead => (exitCode = 1 /\ NoInputMsg \in stderr /\ calls = 0)
        /\ RaisedMsg \in stderr => exitCode = 1
        /\ ~(BlankRead \/ RaisedMsg \in stderr) => exitCode = 0

\* C6 as amended: exit 1 with the "No input text provided" message and no
\* text_to_speech call when no text is obtained; exit 1 with a logged error when
\* text_to_speech raises; exit 1 with a traceback when reading the input or listing
\* the devices raises; exit 2 with the usage message when the command line does not
\* parse; exit 0 otherwise.
C6_ExitCodes ==
    pc = "done" =>
        /\ BlankRead => (exitCode = 1 /\ NoInputMsg \in stderr /\ calls = 0)
        /\ NoInputMsg \in stderr => BlankRead
        /\ RaisedMsg \in stderr => (exitCode = 1 /\ calls = 1)
        /\ "Traceback" \in stderr => exitCode = 1
        /\ "usage" \in stderr => exitCode = 2
        /\ stderr = {} <=> exitCode = 0
        /\ Cardinality(stderr) <= 1

\* Whitespace came from stdin and the run ended with the message.
C6_Witness ==
    /\ pc = "done"
    /\ rawInput.src = "stdin"
    /\ rawInput.raw # <<>>
    /\ AllWhitespace(rawInput.raw)
    /\ exitCode = 1

\* C7 as stated: in a run given -l, whatever else is on the command line, nothing is
\* downloaded, no model is loaded and text_to_speech is not called.
C7_Original ==
    (pc # "start" /\ args.list_devices) =>
        /\ calls = 0
        /\ loads = 0
        /\ \A p \in CacheFiles : fetches[p] = 0

\* C7 as amended: in a run given -l and not --server, whatever else is on the command
\* line, the devices are listed, the run ends, and nothing is downloaded, no model
\* is loaded and text_to_speech is not called.
C7_ListDevicesNeverSynthesises ==
    (pc # "start" /\ args.list_devices /\ ~args.server) =>
        /\ pc = "done"
        /\ "Available audio devices:" \in stdout
        /\ calls = 0
        /\ loads = 0
        /\ \A p \in CacheFiles : fetches[p] = 0

\* -l came with a text and -o, and the run ended well.
C7_Witness ==
    /\ pc = "done"
    /\ args.list_devices
    /\ args.input # None
    /\ args.output
    /\ exitCode = 0

\* No request has been served and text_to_speech has not been called
NothingAskedYet == calls = 0 /\ resp = NoResponse

CallReturned ==
    /\ calls' = calls + 1
    /\ \/ pc' = "done" /\ exitCode' = 0
       \/ resp'.status = 200

C9_Original ==
    resp.status \notin {0, 200} =>
        (resp.status \in {400, 500} /\ resp.detail = "exception")

\* The failures each endpoint can answer with
FailureShapes(ep) ==
    LET r(status, detail) == Response(ep, status, detail)
    IN  CASE ep = "POST /synthesize" -> {r(422, "validation"), r(500, "exception")}
          [] ep = "POST /settings" ->
                {r(422, "validation"), r(400, "exception"), r(500, "generic")}
          [] ep = "POST /synthesize_file" ->
                {r(400, "exception"), r(500, "exception"), r(500, "generic")}
          [] ep = "POST /play_live" -> {r(400, "exception"), r(500, "generic")}
          [] ep = "GET /devices" -> {r(500, "generic")}
          [] OTHER -> {}

\* C9 as amended: a body that fails the pydantic model of /synthesize or /settings
\* gets 422 with the validation errors; an unknown voice and a blank text get 400,
\* no audio frames 500, and any exception inside /synthesize 500, each with the
\* exception's text as detail; an exception in a server.py handler or in /devices
\* gets 500 with the framework's generic body.  A request calls text_to_speech at
\* most once.
C9_FailureResponses ==
    [][/\ resp'.status \notin {0, 200} => resp' \in FailureShapes(resp'.ep)
       /\ calls' \in {calls, calls + 1}]_vars

\* KPipeline(...) raised inside update_settings.
C9_Witness ==
    resp = Uncaught("POST /settings")

\* C10: the pipeline a synthesis request invokes was made for the lang_code of the
\* settings it reads its default voice from, and settings and pipeline never refer
\* to different lang_codes.
C10_SettingsAndPipelineAgree ==
    /\ pipeline.lang_code = settings.lang_code
    /\ call.invoked => call.pipeline = call.settings

Spec == Init /\ [][Next]_vars
====
